---- MODULE Spec2Model ----
(***************************************************************************)
(* Model of src/app.py: the two-stage enrichment pipeline process_file     *)
(* with its two lookup clients get_pubchem_info and get_classyfire_info.   *)
(*                                                                         *)
(* Durations are integers counted in quarter seconds (0.25 s = 1), so that *)
(* every sleep of the program is a whole number.  Python's None is the     *)
(* string "None" inside a dict and the value Nil where a whole dict is     *)
(* absent.  A dict is a function from its string keys to its values.       *)
(***************************************************************************)
EXTENDS Integers, Sequences, FiniteSets, TLC

(***************************************************************************)
(* Bounds of the model.                                                    *)
(***************************************************************************)
\* longest first column of the uploaded sheet
MaxCells == 3
\* largest `retries` argument tried on a direct get_classyfire_info call
MaxRetriesArg == 4

(***************************************************************************)
(* Program constants (durations in quarter seconds).                       *)
(***************************************************************************)
\* retries = 3 of the Stage A loop
PubchemRetries == 3
\* delay = 1 of the Stage A loop
PubchemDelay == 4
\* time.sleep(0.25) closing a Stage A iteration
PubchemPause == 1
\* retries = 3 of the Stage B loop
ClassyRetries == 3
\* delay = 1 of the Stage B loop
ClassyDelay == 4
\* time.sleep(0.25) closing a Stage B iteration
ClassyPause == 1
\* default retries=3 of get_classyfire_info
DefaultRetries == 3
\* default base_delay=1.5 of get_classyfire_info
DefaultBaseDelay == 6
\* upper end 1.5 of random.uniform(0, 1.5)
JitterMax == 6

(***************************************************************************)
(* Values.                                                                 *)
(***************************************************************************)
None == "None"
Nil == [nil |-> "None"]
\* an exception travelling up the call stack
Exc == [exc |-> "Exception"]
\* an empty cell of the sheet, NaN after pd.read_excel
NaN == "NaN"
Names == {"Aspirin", "Water"}
Cells == Names \cup {NaN}

PropertyColumns ==
    {"Compound Name", "SMILES", "InChIKey", "Molecular Formula", "Lipophilicity (XLogP)"}
ClassColumns == {"Class", "Subclass", "Superclass"}

\* d.get(k): the value under k, None when the key is missing
Get(d, k) == IF k \in DOMAIN d THEN d[k] ELSE None
\* Python truth value of a field: None and the empty string are false
Falsy(v) == v \in {None, ""}
\* Python truth value of `data` / `classy`: None and the empty dict are false
Truthy(d) == d # Nil /\ DOMAIN d # {}

(***************************************************************************)
(* The two services.  What a request meets is drawn from these sets: the   *)
(* failures of the transport, of the status and of the body, and the       *)
(* bodies a successful answer can carry.                                   *)
(***************************************************************************)
PropKeys == {"SMILES", "InChIKey", "MolecularFormula", "XLogP"}
\* what the properties service knows of a compound
PropFixture(name) ==
    [k \in PropKeys |->
        CASE k = "SMILES" -> "smiles:" \o name
          [] k = "InChIKey" -> "key:" \o name
          [] k = "MolecularFormula" -> "formula:" \o name
          [] k = "XLogP" -> "xlogp:" \o name]
Restrict(f, S) == [k \in (DOMAIN f) \cap S |-> f[k]]
PropBodies(name) ==
    { Restrict(PropFixture(name), S) :
        S \in {PropKeys, PropKeys \ {"InChIKey"}, {}} }
\* requests.get raised / raise_for_status raised / response.json() raised or
\* is no object / ['PropertyTable']['Properties'][0] is missing
FailureKinds == {"transport_error", "bad_status", "malformed", "no_entry"}
PubchemResponses(name) ==
    [kind : FailureKinds, body : {Nil}] \cup [kind : {"ok"}, body : PropBodies(name)]

ClassKeys == {"class", "subclass", "superclass"}
\* an entry of the classification body: "null" is JSON null, "{}" an object
\* with no name, any other string an object with that name
ClassFixture(key) == [k \in ClassKeys |-> k \o "-of-" \o key]
ClassBodies(key) ==
    LET full == ClassFixture(key) IN
    { full,
      Restrict(full, ClassKeys \ {"subclass"}),
      [full EXCEPT !["subclass"] = "null"],
      [full EXCEPT !["class"] = "{}"],
      Restrict(full, {}) }
ClassyResponses(key) ==
    [kind : FailureKinds \ {"no_entry"}, body : {Nil}]
        \cup [kind : {"ok"}, body : ClassBodies(key)]
NoResp == [kind |-> "none", body |-> Nil]

(***************************************************************************)
(* get_pubchem_info                                                        *)
(***************************************************************************)
\* the body of the try block: the request, raise_for_status, the parse
\* and the dict that is returned; Exc when any of them raises
pubchem_try(compound_name, resp) ==
    IF resp.kind # "ok"
    THEN Exc
    ELSE LET props == resp.body IN
         [c \in PropertyColumns |->
            CASE c = "Compound Name" -> compound_name
              [] c = "SMILES" -> Get(props, "SMILES")
              [] c = "InChIKey" -> Get(props, "InChIKey")
              [] c = "Molecular Formula" -> Get(props, "MolecularFormula")
              [] c = "Lipophilicity (XLogP)" -> Get(props, "XLogP")]

\* the mutant: the except clause is missing and the exception escapes
get_pubchem_info_no_except(compound_name, resp) == pubchem_try(compound_name, resp)
\* try ... except Exception: return None
get_pubchem_info(compound_name, resp) ==
    LET r == pubchem_try(compound_name, resp) IN
    IF r = Exc THEN Nil ELSE r

(***************************************************************************)
(* get_classyfire_info                                                     *)
(***************************************************************************)
AllAbsent == [c \in ClassColumns |-> None]

\* d.get(k, {}).get('name') for a k whose entry is not null
EntryName(d, k) == IF k \notin DOMAIN d \/ d[k] = "{}" THEN None ELSE d[k]

\* the body of the try block of one attempt; d.get(k, {}) is None for a
\* null entry and None.get raises AttributeError
classyfire_try(resp) ==
    IF resp.kind # "ok"
    THEN Exc
    ELSE LET d == resp.body IN
         IF \E k \in DOMAIN d : d[k] = "null"
         THEN Exc
         ELSE [c \in ClassColumns |->
                 CASE c = "Class" -> EntryName(d, "class")
                   [] c = "Subclass" -> EntryName(d, "subclass")
                   [] c = "Superclass" -> EntryName(d, "superclass")]

\* the mutant: a key that is absent is looked up all the same
SkipLookupNever(key) == FALSE
\* if not inchikey
SkipLookup(key) == Falsy(key)

\* the mutant: one attempt too many
HasAttemptOffByOne(a, n) == a <= n
\* for attempt in range(retries): is there an attempt numbered `attempt`
HasAttempt(a, n) == a < n

\* the mutant: the delay doubles with the attempt
BackoffExponential(base_delay, a) == base_delay * 2^a
\* the mutant: the sleep is the jitter alone
BackoffNone(base_delay, a) == 0
\* the part of the sleep after a failed attempt that is not jitter
Backoff(base_delay, a) == base_delay
\* random.uniform(0, 1.5)
Jitters == {0, JitterMax - 1}

(***************************************************************************)
(* process_file: the pure parts                                            *)
(***************************************************************************)
\* Series.dropna(): the cells that are not NaN, in order
RECURSIVE dropna(_)
dropna(s) ==
    IF s = <<>> THEN <<>>
    ELSE IF Head(s) = NaN THEN dropna(Tail(s))
         ELSE <<Head(s)>> \o dropna(Tail(s))

Elems(s) == {s[k] : k \in 1..Len(s)}

\* the mutant: a value is kept at its last occurrence, not its first
RECURSIVE uniqueKeepLast(_)
uniqueKeepLast(s) ==
    IF s = <<>> THEN <<>>
    ELSE IF Head(s) \in Elems(Tail(s)) THEN uniqueKeepLast(Tail(s))
         ELSE <<Head(s)>> \o uniqueKeepLast(Tail(s))
\* Series.unique(): the distinct values in order of first appearance
RECURSIVE unique(_)
unique(s) ==
    IF s = <<>> THEN <<>>
    ELSE LET front == unique(SubSeq(s, 1, Len(s) - 1))
             last == s[Len(s)]
         IN IF last \in Elems(front) THEN front ELSE Append(front, last)

Placeholder(compound) ==
    [c \in PropertyColumns |-> IF c = "Compound Name" THEN compound ELSE None]

\* the mutant: a name whose lookup failed is dropped
StageAResultDropFailed(results, compound, d) ==
    IF Truthy(d) THEN Append(results, d) ELSE results
\* if data: append(data) else: append(placeholder)
StageAResult(results, compound, d) ==
    IF Truthy(d) THEN Append(results, d) ELSE Append(results, Placeholder(compound))

\* the mutant: the merge keeps the name only
CombineNameOnly(item, c) ==
    c @@ Placeholder(item["Compound Name"])
\* {**item, **classy}, or the item with the three columns absent
Combine(item, c) ==
    IF Truthy(c) THEN c @@ item ELSE AllAbsent @@ item

\* the mutant: the delay is not doubled
DoubledNot(d) == d
\* delay *= 2
Doubled(d) == d * 2

\* the mutant: the items are taken from the end of the list
ItemAtReversed(results, idx) == results[Len(results) - idx]
\* for i, item in enumerate(pubchem_results): the item numbered idx
ItemAt(results, idx) == results[idx + 1]

\* the mutant: any field of the result ends the retries
GotClassAny(c) == \E k \in DOMAIN c : c[k] # None
\* the mutant: the first result is taken whatever it holds
GotClassAlways(c) == TRUE
\* if classy['Class'] is not None: break
GotClass(c) == c["Class"] # None

\* fractions as <<numerator, denominator>>
\* the mutant: the second half does not start at 0.5
ProgressBNoOffset(idx, n) == <<idx + 1, 2 * n>>
\* (i + 1) / len(compound_names) * 0.5
ProgressA(idx, n) == <<idx + 1, 2 * n>>
\* 0.5 + (i + 1) / len(pubchem_results) * 0.5
ProgressB(idx, n) == <<n + idx + 1, 2 * n>>

(***************************************************************************)
(* State.                                                                  *)
(***************************************************************************)
VARIABLES
    pc,               \* where the program stands
    columns,          \* number of columns of the uploaded sheet
    cells,            \* the cells of its first column
    compound_names,   \* process_file: compound_names
    i,                \* process_file: i of the running for loop
    retries,          \* process_file: retries
    delay,            \* process_file: delay
    data,             \* process_file: data
    pubchem_results,  \* process_file: pubchem_results
    final_results,    \* process_file: final_results
    inchikey,         \* process_file: inchikey, and the argument of the call
    classy,           \* process_file: classy, the value the call returned
    cf_retries,       \* get_classyfire_info: retries
    cf_base_delay,    \* get_classyfire_info: base_delay
    attempt,          \* get_classyfire_info: attempt
    progress_bar,     \* the value the progress bar shows
    messages,         \* the st.info / st.success messages shown
    result_df,        \* the rows of the DataFrame process_file returned
    \* what the run has done so far, recorded for the properties below
    reports,          \* the values passed to progress_bar.progress, in order
    last_resp,        \* what the request just made has met
    last_sleep,       \* the sleep just slept
    name_reqs,        \* property requests made for the current name
    name_failing,     \* whether all of them failed
    failed_names,     \* the names whose property requests all failed
    item_reqs,        \* classification requests made for the current item
    item_failing,     \* whether all of them failed
    item_calls,       \* get_classyfire_info calls made for the current item
    call_reqs,        \* classification requests made by the current call
    any_request,      \* whether any request has been made to either service
    all_full,         \* whether every request so far was answered in full
    gap,              \* requests made since the last sleep of a positive time
    call_sleeps,      \* sleeps slept by the current call of get_classyfire_info
    iter_sleeps       \* sleeps process_file slept in the current loop iteration

vars ==
    <<pc, columns, cells, compound_names, i, retries, delay, data, pubchem_results,
      final_results, inchikey, classy, cf_retries, cf_base_delay, attempt,
      progress_bar, messages, result_df, reports, last_resp, last_sleep, name_reqs,
      name_failing, failed_names, item_reqs, item_failing, item_calls, call_reqs,
      any_request, all_full, gap, call_sleeps, iter_sleeps>>

locals == <<retries, delay, data, inchikey, classy>>
callVars == <<cf_retries, cf_base_delay, attempt>>
input == <<columns, cells>>
tables == <<compound_names, pubchem_results, final_results, result_df>>
display == <<progress_bar, messages, reports>>
nameHist == <<name_reqs, name_failing, failed_names>>
itemHist == <<item_reqs, item_failing, item_calls, call_reqs>>
sleepHist == <<gap, call_sleeps, iter_sleeps>>

\* one more request since the last sleep; 2 stands for 2 or more
Bump(g) == IF g < 2 THEN g + 1 ELSE g
\* time.sleep(t) has slept: a sleep of no time leaves the requests adjacent
AfterSleep(g, t) == IF t > 0 THEN 0 ELSE g

NoSleep == [site |-> "none", after |-> 0, base |-> 0, jitter |-> 0]
Slept(site, k, base, jitter) ==
    [site |-> site, after |-> k, base |-> base, jitter |-> jitter]

\* a property request succeeds when it is answered with a result entry
Answered(resp) == resp.kind = "ok"
\* a classification request succeeds when it is answered with a body whose
\* entries are objects or missing (an entry that is null is a malformed body)
ClassySucceeds(resp) ==
    /\ resp.kind = "ok"
    /\ \A k \in DOMAIN resp.body : resp.body[k] # "null"
FullPubchem(name) == [kind |-> "ok", body |-> PropFixture(name)]
FullClassy(key) == [kind |-> "ok", body |-> ClassFixture(key)]

ColumnsOf(n) == {s \in UNION {[1..m -> Cells] : m \in 0..n} : TRUE}

Blank ==
    /\ compound_names = <<>> /\ i = 0 /\ retries = 0 /\ delay = 0 /\ data = Nil
    /\ pubchem_results = <<>> /\ final_results = <<>> /\ classy = Nil
    /\ progress_bar = <<0, 1>> /\ messages = <<>> /\ result_df = <<>>
    /\ reports = <<>> /\ last_resp = NoResp /\ last_sleep = NoSleep
    /\ name_reqs = 0 /\ name_failing = TRUE /\ failed_names = {}
    /\ item_reqs = 0 /\ item_failing = TRUE /\ item_calls = 0 /\ call_reqs = 0
    /\ any_request = FALSE /\ all_full = TRUE
    /\ gap = 0 /\ call_sleeps = 0 /\ iter_sleeps = <<>>

\* process_file is entered with an uploaded sheet
Init ==
    /\ pc = "read"
    /\ \/ columns = 0 /\ cells = <<>>
       \/ columns = 1 /\ cells \in ColumnsOf(MaxCells)
    /\ inchikey = None /\ cf_retries = 0 /\ cf_base_delay = 0 /\ attempt = 0
    /\ Blank

(***************************************************************************)
(* process_file, Stage A                                                   *)
(***************************************************************************)
\* pd.read_excel, df.iloc[:, 0].dropna().unique(), the first st.info and
\* the progress bar at 0; df.iloc[:, 0] raises IndexError on no column
ReadInput ==
    /\ pc = "read"
    /\ IF columns = 0
       THEN /\ pc' = "error"
            /\ UNCHANGED <<compound_names, messages>>
       ELSE /\ compound_names' = unique(dropna(cells))
            /\ messages' = Append(messages, "info: fetching PubChem data")
            /\ pc' = "A_for"
    /\ pubchem_results' = <<>>
    /\ progress_bar' = <<0, 1>>
    /\ i' = 0
    /\ UNCHANGED <<input, locals, callVars, final_results, result_df, reports,
                   last_resp, last_sleep, nameHist, itemHist, any_request, sleepHist,
                   all_full>>

\* for i, compound in enumerate(compound_names): data, retries, delay;
\* after the loop the second st.info and final_results = []
A_For ==
    /\ pc = "A_for"
    /\ IF i < Len(compound_names)
       THEN /\ data' = Nil
            /\ retries' = PubchemRetries
            /\ delay' = PubchemDelay
            /\ pc' = "A_while"
            /\ UNCHANGED <<i, messages, final_results>>
       ELSE /\ messages' = Append(messages, "info: annotating with ClassyFire")
            /\ final_results' = <<>>
            /\ i' = 0
            /\ pc' = "B_for"
            /\ UNCHANGED <<data, retries, delay>>
    /\ name_reqs' = 0
    /\ iter_sleeps' = <<>>
    /\ name_failing' = TRUE
    /\ UNCHANGED <<input, compound_names, pubchem_results, result_df, inchikey, classy,
                   callVars, progress_bar, reports, last_resp, last_sleep,
                   failed_names, itemHist, any_request, gap, call_sleeps, all_full>>

\* while retries > 0: data = get_pubchem_info(compound); break when not None
A_Request ==
    /\ pc = "A_while"
    /\ retries > 0
    /\ LET compound == compound_names[i + 1] IN
       \E resp \in PubchemResponses(compound) :
          /\ data' = get_pubchem_info(compound, resp)
          /\ pc' = IF data' = Exc THEN "error"
                   ELSE IF data' # Nil THEN "A_append" ELSE "A_sleep"
          /\ last_resp' = resp
          /\ name_reqs' = name_reqs + 1
          /\ name_failing' = (name_failing /\ ~Answered(resp))
          /\ all_full' = (all_full /\ resp = FullPubchem(compound))
    /\ any_request' = TRUE
    /\ gap' = Bump(gap)
    /\ UNCHANGED <<call_sleeps, iter_sleeps>>
    /\ UNCHANGED <<input, tables, i, retries, delay, inchikey, classy, callVars,
                   display, last_sleep, failed_names, itemHist>>

\* time.sleep(delay); delay *= 2; retries -= 1
A_Sleep ==
    /\ pc = "A_sleep"
    /\ last_sleep' = Slept("A_retry", name_reqs, delay, 0)
    /\ delay' = Doubled(delay)
    /\ gap' = AfterSleep(gap, delay)
    /\ iter_sleeps' = Append(iter_sleeps, delay)
    /\ retries' = retries - 1
    /\ last_resp' = NoResp
    /\ pc' = "A_while"
    /\ UNCHANGED <<input, tables, i, data, inchikey, classy, callVars, display,
                   nameHist, itemHist, any_request, call_sleeps, all_full>>

\* the while loop ends with retries == 0
A_Exhausted ==
    /\ pc = "A_while"
    /\ ~(retries > 0)
    /\ pc' = "A_append"
    /\ UNCHANGED <<input, tables, i, locals, callVars, display, last_resp, last_sleep,
                   nameHist, itemHist, any_request, sleepHist, all_full>>

\* the record or the placeholder is appended and the progress reported
A_Append ==
    /\ pc = "A_append"
    /\ LET compound == compound_names[i + 1]
           fraction == ProgressA(i, Len(compound_names))
       IN /\ pubchem_results' = StageAResult(pubchem_results, compound, data)
          /\ progress_bar' = fraction
          /\ reports' = Append(reports, fraction)
          /\ failed_names' = IF name_reqs > 0 /\ name_failing
                             THEN failed_names \cup {compound}
                             ELSE failed_names
    /\ pc' = "A_pause"
    /\ UNCHANGED <<input, compound_names, final_results, result_df, i, locals, callVars,
                   messages, last_resp, last_sleep, name_reqs, name_failing, itemHist,
                   any_request, sleepHist,
                   all_full>>

\* time.sleep(0.25), and on to the next name
A_Pause ==
    /\ pc = "A_pause"
    /\ last_sleep' = Slept("A_pause", 0, PubchemPause, 0)
    /\ gap' = AfterSleep(gap, PubchemPause)
    /\ iter_sleeps' = Append(iter_sleeps, PubchemPause)
    /\ i' = i + 1
    /\ last_resp' = NoResp
    /\ pc' = "A_for"
    /\ UNCHANGED <<input, tables, locals, callVars, display, nameHist,
                   itemHist, any_request, call_sleeps, all_full>>

(***************************************************************************)
(* process_file, Stage B                                                   *)
(***************************************************************************)
\* for i, item in enumerate(pubchem_results): inchikey, retries, delay, classy
B_For ==
    /\ pc = "B_for"
    /\ IF i < Len(pubchem_results)
       THEN /\ inchikey' = ItemAt(pubchem_results, i)["InChIKey"]
            /\ retries' = ClassyRetries
            /\ delay' = ClassyDelay
            /\ classy' = Nil
            /\ pc' = "B_while"
       ELSE /\ pc' = "finish"
            /\ UNCHANGED <<inchikey, retries, delay, classy>>
    /\ item_reqs' = 0
    /\ item_failing' = TRUE
    /\ item_calls' = 0
    /\ call_reqs' = 0
    /\ call_sleeps' = 0
    /\ iter_sleeps' = <<>>
    /\ UNCHANGED <<input, tables, i, data, callVars, display, last_resp, last_sleep,
                   nameHist, any_request, gap, all_full>>

\* while retries > 0: classy = get_classyfire_info(inchikey), the call
B_Call ==
    /\ pc = "B_while"
    /\ retries > 0
    /\ cf_retries' = DefaultRetries
    /\ cf_base_delay' = DefaultBaseDelay
    /\ item_calls' = item_calls + 1
    /\ call_reqs' = 0
    /\ call_sleeps' = 0
    /\ pc' = "CF_entry"
    /\ UNCHANGED <<input, tables, i, locals, attempt, display, last_resp, last_sleep,
                   nameHist, item_reqs, item_failing, any_request, gap, iter_sleeps, all_full>>

\* the while loop ends with retries == 0
B_Exhausted ==
    /\ pc = "B_while"
    /\ ~(retries > 0)
    /\ pc' = "B_append"
    /\ UNCHANGED <<input, tables, i, locals, callVars, display, last_resp, last_sleep,
                   nameHist, itemHist, any_request, sleepHist, all_full>>

\* if classy['Class'] is not None: break
B_Check ==
    /\ pc = "B_check"
    /\ pc' = IF GotClass(classy) THEN "B_append" ELSE "B_sleep"
    /\ last_resp' = NoResp
    /\ UNCHANGED <<input, tables, i, locals, callVars, display, last_sleep,
                   nameHist, itemHist, any_request, sleepHist, all_full>>

\* time.sleep(delay); delay *= 2; retries -= 1
B_Sleep ==
    /\ pc = "B_sleep"
    /\ last_sleep' = Slept("B_retry", item_calls, delay, 0)
    /\ delay' = Doubled(delay)
    /\ gap' = AfterSleep(gap, delay)
    /\ iter_sleeps' = Append(iter_sleeps, delay)
    /\ retries' = retries - 1
    /\ pc' = "B_while"
    /\ UNCHANGED <<input, tables, i, data, inchikey, classy, callVars, display,
                   last_resp, nameHist, itemHist, any_request, call_sleeps, all_full>>

\* combined = {**item, **classy}; it is appended and the progress reported
B_Append ==
    /\ pc = "B_append"
    /\ LET item == ItemAt(pubchem_results, i)
           fraction == ProgressB(i, Len(pubchem_results))
       IN /\ final_results' = Append(final_results, Combine(item, classy))
          /\ progress_bar' = fraction
          /\ reports' = Append(reports, fraction)
    /\ pc' = "B_pause"
    /\ UNCHANGED <<input, compound_names, pubchem_results, result_df, i, locals,
                   callVars, messages, last_resp, last_sleep, nameHist, itemHist,
                   any_request, sleepHist, all_full>>

\* time.sleep(0.25), and on to the next item
B_Pause ==
    /\ pc = "B_pause"
    /\ last_sleep' = Slept("B_pause", 0, ClassyPause, 0)
    /\ gap' = AfterSleep(gap, ClassyPause)
    /\ iter_sleeps' = Append(iter_sleeps, ClassyPause)
    /\ i' = i + 1
    /\ pc' = "B_for"
    /\ UNCHANGED <<input, tables, locals, callVars, display, last_resp, nameHist,
                   itemHist, any_request, call_sleeps, all_full>>

\* the two st.success messages and return pd.DataFrame(final_results)
Finish ==
    /\ pc = "finish"
    /\ messages' = messages \o <<"success: done", "success: incomplete details">>
    /\ result_df' = final_results
    /\ pc' = "done"
    /\ UNCHANGED <<input, compound_names, pubchem_results, final_results, i, locals,
                   callVars, progress_bar, reports, last_resp, last_sleep, nameHist,
                   itemHist, any_request, sleepHist, all_full>>

(***************************************************************************)
(* get_classyfire_info(inchikey, retries, base_delay)                      *)
(***************************************************************************)
\* if not inchikey: return the three columns absent
CF_Entry ==
    /\ pc = "CF_entry"
    /\ IF SkipLookup(inchikey)
       THEN /\ classy' = AllAbsent
            /\ pc' = "B_check"
            /\ UNCHANGED attempt
       ELSE /\ attempt' = 0
            /\ pc' = "CF_loop"
            /\ UNCHANGED classy
    /\ UNCHANGED <<input, tables, i, retries, delay, data, inchikey, cf_retries,
                   cf_base_delay, display, last_resp, last_sleep, nameHist, itemHist,
                   any_request, sleepHist, all_full>>

\* one attempt: the request, raise_for_status, the parse, and the return of
\* the three names; except Exception catches whatever is raised
CF_Request ==
    /\ pc = "CF_loop"
    /\ HasAttempt(attempt, cf_retries)
    /\ \E resp \in ClassyResponses(inchikey) :
          LET r == classyfire_try(resp) IN
          /\ IF r = Exc
             THEN pc' = "CF_sleep" /\ UNCHANGED classy
             ELSE pc' = "B_check" /\ classy' = r
          /\ last_resp' = resp
          /\ item_failing' = (item_failing /\ ~ClassySucceeds(resp))
          /\ all_full' = (all_full /\ resp = FullClassy(inchikey))
    /\ item_reqs' = item_reqs + 1
    /\ call_reqs' = call_reqs + 1
    /\ any_request' = TRUE
    /\ gap' = Bump(gap)
    /\ UNCHANGED <<call_sleeps, iter_sleeps>>
    /\ UNCHANGED <<input, tables, i, retries, delay, data, inchikey, callVars, display,
                   last_sleep, nameHist, item_calls>>

\* time.sleep(base_delay + random.uniform(0, 1.5)), then the next attempt
CF_Sleep ==
    /\ pc = "CF_sleep"
    /\ \E jitter \in Jitters :
          /\ last_sleep' = Slept("CF_retry", attempt + 1,
                                 Backoff(cf_base_delay, attempt), jitter)
          /\ gap' = AfterSleep(gap, Backoff(cf_base_delay, attempt) + jitter)
    /\ call_sleeps' = call_sleeps + 1
    /\ attempt' = attempt + 1
    /\ last_resp' = NoResp
    /\ pc' = "CF_loop"
    /\ UNCHANGED <<input, tables, i, locals, cf_retries, cf_base_delay, display,
                   nameHist, itemHist, any_request, iter_sleeps, all_full>>

\* the for loop is over: return the three columns absent
CF_Exhausted ==
    /\ pc = "CF_loop"
    /\ ~HasAttempt(attempt, cf_retries)
    /\ classy' = AllAbsent
    /\ pc' = "B_check"
    /\ UNCHANGED <<input, tables, i, retries, delay, data, inchikey, callVars, display,
                   last_resp, last_sleep, nameHist, itemHist, any_request, sleepHist,
                   all_full>>

(***************************************************************************)
(* Specifications.                                                         *)
(***************************************************************************)
Next ==
    \/ ReadInput
    \/ A_For \/ A_Request \/ A_Sleep \/ A_Exhausted \/ A_Append \/ A_Pause
    \/ B_For \/ B_Call \/ B_Exhausted \/ B_Check \/ B_Sleep \/ B_Append \/ B_Pause
    \/ CF_Entry \/ CF_Request \/ CF_Sleep \/ CF_Exhausted
    \/ Finish

\* one run of process_file on an uploaded sheet
Spec == Init /\ [][Next]_vars

\* the same run when every request and every sleep returns: whatever step
\* the program stands at is eventually taken
SpecFair == Spec /\ WF_vars(Next)

\* one call get_classyfire_info(inchikey, retries, base_delay) on its own
BaseDelays == {0, 2, DefaultBaseDelay}
InitCall ==
    /\ pc = "CF_entry"
    /\ columns = 1 /\ cells = <<>>
    /\ inchikey \in {None, ""} \cup {PropFixture(n)["InChIKey"] : n \in Names}
    /\ cf_retries \in 0..MaxRetriesArg
    /\ cf_base_delay \in BaseDelays
    /\ attempt = 0
    /\ Blank

NextCall == CF_Entry \/ CF_Request \/ CF_Sleep \/ CF_Exhausted

SpecCall == InitCall /\ [][NextCall]_vars

(***************************************************************************)
(* Properties.                                                             *)
(***************************************************************************)
AllColumns == PropertyColumns \cup ClassColumns
NamesOf(rows) == [k \in 1..Len(rows) |-> rows[k]["Compound Name"]]
\* the names the sheet holds: its cells that are not empty
InputNames == Elems(cells) \ {NaN}
StageB == {"B_for", "B_while", "B_check", "B_sleep", "B_append", "B_pause",
           "CF_entry", "CF_loop", "CF_sleep"}

\* C1: the result of a run has exactly one row per unique input name, and
\* the row of a name whose property requests all failed carries the name
\* with the seven other columns absent.
C1_OneRowPerName ==
    pc = "done" =>
        /\ Len(result_df) = Cardinality(InputNames)
        /\ \A n \in InputNames :
              Cardinality({k \in 1..Len(result_df) :
                              result_df[k]["Compound Name"] = n}) = 1
        /\ \A k \in 1..Len(result_df) :
              /\ DOMAIN result_df[k] = AllColumns
              /\ result_df[k]["Compound Name"] \in failed_names
                    => \A c \in AllColumns \ {"Compound Name"} : result_df[k][c] = None

\* a run that ended with two rows, the lookups of one name having all
\* failed and those of the other not
C1_Witness ==
    /\ pc = "done"
    /\ Len(result_df) = 2
    /\ Cardinality(failed_names) = 1
    /\ \E k \in 1..2 : result_df[k]["SMILES"] # None

\* the cell at which a value first appears in the sheet
FirstAt(x) == CHOOSE k \in 1..Len(cells) : cells[k] = x /\ \A j \in 1..(k - 1) : cells[j] # x
\* the names of `rows` are distinct names of the sheet, in order of first
\* appearance
InFirstAppearanceOrder(rows) ==
    /\ \A k \in 1..Len(rows) : rows[k]["Compound Name"] \in InputNames
    /\ \A p, q \in 1..Len(rows) :
          p < q => FirstAt(rows[p]["Compound Name"]) < FirstAt(rows[q]["Compound Name"])
Covers(rows) == {rows[k]["Compound Name"] : k \in 1..Len(rows)} = InputNames

\* C2: the rows returned are the distinct non-blank names, each once, in
\* order of first appearance, and Stage A and Stage B both keep that order.
C2_FirstAppearanceOrder ==
    /\ InFirstAppearanceOrder(pubchem_results)
    /\ InFirstAppearanceOrder(final_results)
    /\ pc \in StageB \cup {"finish", "done"} => Covers(pubchem_results)
    /\ pc \in {"finish", "done"} => Covers(final_results)
    /\ pc = "done" => InFirstAppearanceOrder(result_df) /\ Covers(result_df)

\* a run on a sheet where a name comes back after another name and a blank
C2_Witness ==
    /\ pc = "done"
    /\ cells = <<"Water", "Aspirin", "Water">>
    /\ NamesOf(result_df) = <<"Water", "Aspirin">>

\* C3: whatever the requests meet, a run whose name list was read and is
\* not empty never ends in an error and never stops short of returning;
\* every returned row has all eight columns.
C3_FailuresAbsorbed ==
    Len(compound_names) > 0 =>
        /\ pc # "error"
        /\ pc # "done" => ENABLED Next
        /\ pc = "done" => \A k \in 1..Len(result_df) : DOMAIN result_df[k] = AllColumns

\* a run that returned although every property request of one name failed
\* and the classification of a name with a key came back absent
C3_Witness ==
    /\ pc = "done"
    /\ failed_names # {}
    /\ \E k \in 1..Len(result_df) :
          /\ result_df[k]["InChIKey"] # None
          /\ \A c \in ClassColumns : result_df[k][c] = None

\* the item Stage B is working on has a structural key
HasKey == ~Falsy(inchikey)

\* C4 as stated: when every classification request of an item fails, the
\* pipeline gives up on it after exactly 3 requests, having called
\* get_classyfire_info once for the item.
C4_ThreeRequestsOneCall ==
    (pc = "B_append" /\ item_failing /\ HasKey) =>
        /\ item_reqs = DefaultRetries
        /\ item_calls = 1

\* C4 as amended: when every classification request of an item fails, the
\* pipeline gives up on it after 3 calls of get_classyfire_info, each of 3
\* requests when the item has a structural key: 9 requests for the item.
C4_NineRequestsThreeCalls ==
    (pc = "B_append" /\ item_failing) =>
        /\ HasKey => item_reqs = ClassyRetries * DefaultRetries
        /\ item_calls = ClassyRetries

\* the pipeline gives up on an item with a key whose requests all failed
C4_Witness ==
    /\ pc = "B_append"
    /\ HasKey
    /\ item_failing
    /\ item_reqs = 9
    /\ classy = AllAbsent

\* C5: one call get_classyfire_info(key, retries, base_delay) with a key
\* makes at most `retries` requests, goes on only after a request that
\* failed, returns on the first request that succeeds and, when all of them
\* failed, returns the three columns absent after exactly `retries`
\* requests, as a value and not as an error.
C5_BoundedAttempts ==
    HasKey =>
        /\ call_reqs <= cf_retries
        /\ pc # "error"
        /\ pc = "CF_sleep" => ~ClassySucceeds(last_resp)
        /\ pc = "CF_loop" => call_reqs = attempt /\ last_resp = NoResp
        /\ (pc = "B_check" /\ last_resp # NoResp) =>
              /\ ClassySucceeds(last_resp)
              /\ classy \in [ClassColumns -> STRING]
        /\ (pc = "B_check" /\ last_resp = NoResp) =>
              /\ call_reqs = cf_retries
              /\ classy = AllAbsent

\* a call with a key and retries >= 3 that returned after all its requests
\* failed
C5_Witness ==
    /\ pc = "B_check"
    /\ HasKey
    /\ cf_retries >= 3
    /\ call_reqs = cf_retries
    /\ last_resp = NoResp
    /\ classy = AllAbsent

\* a call with a key that returned on its second request
C5_WitnessStop ==
    /\ pc = "B_check"
    /\ HasKey
    /\ cf_retries >= 3
    /\ call_reqs = 2
    /\ ClassySucceeds(last_resp)

\* C6: while Stage B works on an item whose structural key is absent no
\* classification request is made for it, and every row whose key is
\* absent, the placeholder rows among them, has Class, Subclass and
\* Superclass absent.
C6_NoLookupWithoutKey ==
    /\ (pc \in StageB /\ inchikey = None) => item_reqs = 0 /\ call_reqs = 0
    /\ \A k \in 1..Len(pubchem_results) :
          pubchem_results[k]["Compound Name"] \in failed_names
              => pubchem_results[k]["InChIKey"] = None
    /\ \A k \in 1..Len(final_results) :
          final_results[k]["InChIKey"] = None
              => \A c \in ClassColumns : final_results[k][c] = None
    /\ \A k \in 1..Len(result_df) :
          result_df[k]["InChIKey"] = None
              => \A c \in ClassColumns : result_df[k][c] = None

\* Stage B is done with the placeholder of a failed name: all its calls
\* were made and none made a request
C6_Witness ==
    /\ pc = "B_pause"
    /\ inchikey = None
    /\ item_calls = 3
    /\ final_results[Len(final_results)]["Compound Name"] \in failed_names
    /\ any_request

\* C7: when the first column yields no name, the run ends in an input
\* error before any request; it does not return a result.
C7_EmptyInputIsError ==
    InputNames = {} => pc # "done" /\ ~any_request

\* fractions <<numerator, denominator>> compared by cross multiplication
FractionLeq(a, b) == a[1] * b[2] <= b[1] * a[2]
IsOne(a) == a[1] = a[2]

\* C8: the values passed to the progress bar never decrease, and a run
\* that has returned reported 1.0 exactly once, as its last report.
C8_ProgressReachesOne ==
    /\ \A p, q \in 1..Len(reports) : p < q => FractionLeq(reports[p], reports[q])
    /\ pc = "done" =>
          /\ Cardinality({k \in 1..Len(reports) : IsOne(reports[k])}) = 1
          /\ IsOne(reports[Len(reports)])

RECURSIVE Pow2(_)
Pow2(n) == IF n <= 0 THEN 1 ELSE 2 * Pow2(n - 1)

\* C9: the sleep after failed attempt number k of get_classyfire_info is
\* base_delay * 2^(k-1) plus a jitter in [0, 1.5).
C9_BackoffDoubles ==
    last_sleep.site = "CF_retry" =>
        /\ last_sleep.base = cf_base_delay * Pow2(last_sleep.after - 1)
        /\ last_sleep.jitter >= 0
        /\ last_sleep.jitter < JitterMax

\* the column of the output that holds a key of the property answer
ColumnOfProp ==
    [k \in PropKeys |->
        CASE k = "SMILES" -> "SMILES"
          [] k = "InChIKey" -> "InChIKey"
          [] k = "MolecularFormula" -> "Molecular Formula"
          [] k = "XLogP" -> "Lipophilicity (XLogP)"]
ColumnOfClass ==
    [k \in ClassKeys |->
        CASE k = "class" -> "Class"
          [] k = "subclass" -> "Subclass"
          [] k = "superclass" -> "Superclass"]

\* C10: the Stage A record of a name is its first answered property
\* response or the placeholder; every output row is that record, its five
\* columns unchanged, joined with the classification the last call of
\* get_classyfire_info for the item returned; and when every request was
\* answered in full, every row carries the values of both services.
C10_MergeKeepsBoth ==
    /\ pc = "A_pause" =>
          LET rec == pubchem_results[Len(pubchem_results)] IN
          /\ rec["Compound Name"] = compound_names[i + 1]
          /\ \A k \in PropKeys :
                rec[ColumnOfProp[k]] =
                    IF last_resp.kind = "ok" /\ k \in DOMAIN last_resp.body
                    THEN last_resp.body[k] ELSE None
    /\ \A k \in 1..Len(final_results) :
          /\ DOMAIN final_results[k] = AllColumns
          /\ \A c \in PropertyColumns : final_results[k][c] = pubchem_results[k][c]
    /\ pc = "B_pause" =>
          \A c \in ClassColumns : final_results[Len(final_results)][c] = classy[c]
    /\ (pc = "done" /\ all_full) =>
          \A r \in 1..Len(result_df) :
             LET row == result_df[r]
                 props == PropFixture(row["Compound Name"])
                 class == ClassFixture(props["InChIKey"])
             IN /\ \A k \in PropKeys : row[ColumnOfProp[k]] = props[k]
                /\ \A k \in ClassKeys : row[ColumnOfClass[k]] = class[k]

\* the run on Aspirin, Water, Aspirin with both services answering in full
C10_Witness ==
    /\ pc = "done"
    /\ all_full
    /\ cells = <<"Aspirin", "Water", "Aspirin">>
    /\ NamesOf(result_df) = <<"Aspirin", "Water">>
    /\ result_df[2]["Class"] = "class-of-key:Water"

\* a run of one name, not every request answered in full, whose row has
\* its properties and its class but no subclass
C10_WitnessPartial ==
    /\ pc = "done"
    /\ ~all_full
    /\ Len(result_df) = 1
    /\ result_df[1]["SMILES"] # None
    /\ result_df[1]["Class"] # None
    /\ result_df[1]["Subclass"] = None

\* the request just made was answered with a class that has a name and
\* with the entry k missing or null
PartialAnswer(k) ==
    /\ last_resp.kind = "ok"
    /\ "class" \in DOMAIN last_resp.body
    /\ last_resp.body["class"] \notin {"null", "{}"}
    /\ k \notin DOMAIN last_resp.body \/ last_resp.body[k] = "null"

\* C11: when a classification request is answered with a class that has a
\* name and with the subclass or superclass entry missing or null, the call
\* returns on that attempt with Class set to the name and the field of the
\* absent entry absent.
C11_PartialAnswerReturned ==
    \A k \in {"subclass", "superclass"} :
        (pc \in {"CF_sleep", "B_check"} /\ PartialAnswer(k)) =>
            /\ pc = "B_check"
            /\ classy["Class"] = last_resp.body["class"]
            /\ classy[ColumnOfClass[k]] = None

\* the part of C11 the code keeps: the same with the entry missing
C11_MissingKeyReturned ==
    \A k \in {"subclass", "superclass"} :
        (pc \in {"CF_sleep", "B_check"} /\ PartialAnswer(k)
            /\ \A e \in DOMAIN last_resp.body : last_resp.body[e] # "null") =>
            /\ pc = "B_check"
            /\ classy["Class"] = last_resp.body["class"]
            /\ classy[ColumnOfClass[k]] = None

StageA == {"A_for", "A_while", "A_sleep", "A_append", "A_pause"}

\* C12: in Stage A a name is queried at most 3 times; the loop goes on
\* only after a request that failed and leaves at the first one answered;
\* the pause after the k-th failed attempt is 2^(k-1) seconds (1, 2, 4);
\* and each name, resolved or not, is followed by a pause of 0.25 s.
C12_StageARetries ==
    /\ pc \in StageA => name_reqs <= 3
    /\ pc = "A_sleep" => ~Answered(last_resp)
    /\ (pc = "A_append" /\ last_resp # NoResp) =>
          Answered(last_resp) /\ iter_sleeps = [k \in 1..(name_reqs - 1) |-> 4 * Pow2(k - 1)]
    /\ (pc = "A_append" /\ last_resp = NoResp) =>
          name_reqs = 3 /\ iter_sleeps = <<4, 8, 16>>
    /\ last_sleep.site = "A_retry" =>
          /\ last_sleep.base = 4 * Pow2(last_sleep.after - 1)
          /\ last_sleep.jitter = 0
          /\ last_sleep.after \in 1..3
    /\ (pc = "A_for" /\ i > 0) =>
          /\ last_sleep = Slept("A_pause", 0, 1, 0)
          /\ iter_sleeps[Len(iter_sleeps)] = 1

\* a name was given up after three failed requests and the pauses 1, 2, 4
\* and 0.25 s
C12_Witness ==
    /\ pc = "A_for"
    /\ i = 1
    /\ compound_names[1] \in failed_names
    /\ iter_sleeps = <<4, 8, 16, 1>>

\* a name was answered at its second request, after one pause of 1 s
C12_WitnessStop ==
    /\ pc = "A_for"
    /\ i = 1
    /\ pubchem_results[1]["SMILES"] # None
    /\ iter_sleeps = <<4, 1>>

\* C13: in Stage B a result whose Class is absent counts as a failure, also
\* when the request was answered: get_classyfire_info is called again, at
\* most 3 times per item, with pauses of 1, 2 and 4 s after the calls that
\* failed; the calls stop at the first result with a Class, and that Class
\* is the Class of the output row.
C13_StageBRetries ==
    /\ item_calls <= 3
    /\ pc = "B_sleep" => classy["Class"] = None
    /\ last_sleep.site = "B_retry" =>
          /\ last_sleep.base = 4 * Pow2(last_sleep.after - 1)
          /\ last_sleep.jitter = 0
    /\ pc \in {"B_while", "B_sleep", "CF_entry", "CF_loop", "CF_sleep"} =>
          iter_sleeps = [k \in 1..Len(iter_sleeps) |-> 4 * Pow2(k - 1)]
    /\ pc \in {"B_while", "CF_entry", "CF_loop", "CF_sleep"} =>
          /\ Len(iter_sleeps) = IF pc = "B_while" THEN item_calls ELSE item_calls - 1
          /\ classy = Nil \/ classy["Class"] = None
    /\ pc = "B_append" =>
          /\ classy["Class"] # None \/ item_calls = 3
          /\ classy["Class"] # None => Len(iter_sleeps) = item_calls - 1
          /\ classy["Class"] = None => iter_sleeps = <<4, 8, 16>>
    /\ pc = "B_pause" =>
          final_results[Len(final_results)]["Class"] = classy["Class"]

\* a second call is under way for an item whose first call was answered,
\* without a Class, at its first request
C13_Witness ==
    /\ pc = "CF_loop"
    /\ item_calls = 2
    /\ item_reqs = 1
    /\ ~item_failing
    /\ classy["Class"] = None
    /\ classy["Subclass"] # None
    /\ iter_sleeps = <<4>>

\* the third call returned a Class, which the row carries
C13_WitnessThird ==
    /\ pc = "B_pause"
    /\ item_calls = 3
    /\ iter_sleeps = <<4, 8>>
    /\ final_results[Len(final_results)]["Class"] # None

\* C14: between any two consecutive requests of a run, to either service,
\* a sleep of a positive time is slept: never are two requests made with
\* no such sleep since the one before.
C14_SleepBetweenRequests ==
    /\ gap <= 1
    /\ pc \in {"A_while", "CF_entry", "CF_loop", "B_for", "A_for", "B_while", "finish", "done"}
          => gap = 0

\* the first classification request of a run is about to be made, the last
\* property request having been followed by the pause of 0.25 s only
C14_Witness ==
    /\ pc = "CF_loop"
    /\ any_request
    /\ item_reqs = 0
    /\ i = 0
    /\ last_sleep.site = "A_pause"
    /\ gap = 0

\* a classification request is about to follow one that was answered
\* without a Class, with the pause of the outer loop in between
C14_WitnessOuter ==
    /\ pc = "CF_loop"
    /\ item_reqs > 0
    /\ attempt = 0
    /\ last_sleep.site = "B_retry"
    /\ gap = 0

InCall == {"CF_entry", "CF_loop", "CF_sleep"}

\* C15: no call and no request of the classification service is made
\* before the property lookup of every name is finished, none of the
\* property service after; Stage B takes the items in the order of Stage A,
\* and the calls made for an item are all made after the rows of the items
\* before it are finished and before its own row is.
C15_StagesInOrder ==
    /\ pc \in StageA \cup {"read"} =>
          item_calls = 0 /\ item_reqs = 0 /\ final_results = <<>>
    /\ (pc \in InCall \/ item_calls > 0 \/ item_reqs > 0) =>
          /\ Len(pubchem_results) = Len(compound_names)
          /\ NamesOf(pubchem_results) = compound_names
    /\ pc \in StageB => name_reqs = 0
    /\ pc \in (StageB \ {"B_for", "B_pause"}) =>
          /\ Len(final_results) = i
          /\ i < Len(pubchem_results)
          /\ inchikey = pubchem_results[i + 1]["InChIKey"]
    /\ pc = "B_pause" => Len(final_results) = i + 1
    /\ pc = "B_for" => Len(final_results) = i
    /\ \A k \in 1..Len(final_results) :
          final_results[k]["Compound Name"] = pubchem_results[k]["Compound Name"]

\* the first request for the second item is about to be made, the row of
\* the first item being finished, without a Class
C15_Witness ==
    /\ pc = "CF_loop"
    /\ i = 1
    /\ Len(final_results) = 1
    /\ item_calls = 1
    /\ item_reqs = 0
    /\ Len(pubchem_results) = 2
    /\ final_results[1]["Class"] = None
    /\ pubchem_results[1]["InChIKey"] # pubchem_results[2]["InChIKey"]

\* the fraction f is the number num / den
FractionIs(f, num, den) == f[1] * den = num * f[2]
\* the fraction f is greater than 0, and greater than one half
Positive(f) == f[1] > 0 /\ f[2] > 0
AboveHalf(f) == 2 * f[1] > f[2]

\* C16: with n names, progress is reported once for each name in Stage A,
\* the k-th time as k/n * 0.5, in (0, 0.5], and once for each item in
\* Stage B, the k-th time as 0.5 + k/n * 0.5, in (0.5, 1.0]; the Stage A
\* reports all come before those of Stage B; a name is reported whether
\* its lookup succeeded or failed.
C16_ProgressReports ==
    LET n == Len(compound_names) IN
    /\ Len(reports) = Len(pubchem_results) + Len(final_results)
    /\ pc \in StageA => Len(final_results) = 0 /\ Len(reports) <= n
    /\ pc \in StageB \cup {"finish", "done"} => Len(pubchem_results) = n
    /\ pc = "A_pause" => Len(reports) = i + 1
    /\ pc = "B_pause" => Len(reports) = n + i + 1
    /\ pc = "done" => Len(reports) = 2 * n
    /\ \A k \in 1..Len(reports) :
          IF k <= n
          THEN /\ FractionIs(reports[k], k, 2 * n)
               /\ Positive(reports[k])
               /\ ~AboveHalf(reports[k])
          ELSE /\ FractionIs(reports[k], n + (k - n), 2 * n)
               /\ AboveHalf(reports[k])
               /\ FractionLeq(reports[k], <<1, 1>>)

\* a run of two names has ended with four reports, the lookups of one name
\* having failed
C16_Witness ==
    /\ pc = "done"
    /\ Len(compound_names) = 2
    /\ Cardinality(failed_names) = 1
    /\ reports = <<<<1, 4>>, <<2, 4>>, <<3, 4>>, <<4, 4>>>>

\* C17: when every request and every sleep returns, a run on a sheet whose
\* name list could be read reaches its return, whatever the services
\* answer.
C17_RunCompletes == (pc = "read" /\ columns = 1) ~> (pc = "done")

\* a run of two names has returned after every property request of the
\* first failed and the second, which has a key, went through all three
\* calls without getting a Class
C17_Witness ==
    /\ pc = "done"
    /\ Len(result_df) = 2
    /\ result_df[1]["Compound Name"] \in failed_names
    /\ result_df[2]["InChIKey"] # None
    /\ \A c \in ClassColumns : result_df[2][c] = None
    /\ last_sleep.site = "B_pause"
    /\ Len(reports) = 4

\* C18: in one call of get_classyfire_info every failed attempt, the last
\* one included, is followed by one sleep of base_delay plus jitter, so the
\* sleeps are as many as the failed attempts, and a call that runs out of
\* attempts has made `retries` requests and slept `retries` times when it
\* returns the three columns absent.
C18_SleepAfterEveryFailure ==
    /\ ~HasKey => call_sleeps = 0 /\ call_reqs = 0
    /\ pc = "CF_loop" => call_sleeps = call_reqs
    /\ pc = "CF_sleep" => call_sleeps = call_reqs - 1 /\ ~ClassySucceeds(last_resp)
    /\ (pc = "B_check" /\ last_resp # NoResp) => call_sleeps = call_reqs - 1
    /\ (pc = "B_check" /\ last_resp = NoResp /\ HasKey) =>
          /\ call_reqs = cf_retries
          /\ call_sleeps = cf_retries
          /\ cf_retries > 0 => last_sleep.after = cf_retries
          /\ classy = AllAbsent
    /\ last_sleep.site = "CF_retry" =>
          /\ last_sleep.after = call_sleeps
          /\ last_sleep.base = cf_base_delay
          /\ last_sleep.jitter \in 0..(JitterMax - 1)

\* a call with retries = 3 has returned after three failed requests and
\* three sleeps of the same base, the last one after the last request
C18_Witness ==
    /\ pc = "B_check"
    /\ HasKey
    /\ cf_retries = 3
    /\ cf_base_delay > 0
    /\ call_reqs = 3
    /\ call_sleeps = 3
    /\ last_sleep = Slept("CF_retry", 3, cf_base_delay, JitterMax - 1)
    /\ classy = AllAbsent

\* C19: for an item whose structural key is absent Stage B runs its whole
\* retry loop: 3 calls of get_classyfire_info, none making a request or
\* sleeping, and the pipeline's own sleeps of 1, 2 and 4 s and then the
\* pause of 0.25 s; the same sleeps as for an item with a key that ends
\* without a Class.
C19_NoKeyFullLoop ==
    (pc = "B_for" /\ i > 0) =>
        /\ Falsy(pubchem_results[i]["InChIKey"]) =>
              /\ item_calls = 3
              /\ item_reqs = 0
              /\ call_sleeps = 0
              /\ iter_sleeps = <<4, 8, 16, 1>>
              /\ final_results[i]["Class"] = None
        /\ final_results[i]["Class"] = None =>
              /\ item_calls = 3
              /\ iter_sleeps = <<4, 8, 16, 1>>

\* Stage B is done with an item without a key, after 3 calls, no request
\* and the four sleeps
C19_Witness ==
    /\ pc = "B_for"
    /\ i = 1
    /\ pubchem_results[1]["InChIKey"] = None
    /\ pubchem_results[1]["SMILES"] # None
    /\ item_calls = 3
    /\ item_reqs = 0
    /\ iter_sleeps = <<4, 8, 16, 1>>

\* Stage B is done with an item with a key that ended without a Class,
\* after the same four sleeps
C19_WitnessExhausted ==
    /\ pc = "B_for"
    /\ i = 1
    /\ pubchem_results[1]["InChIKey"] # None
    /\ final_results[1]["Class"] = None
    /\ item_reqs = 9
    /\ iter_sleeps = <<4, 8, 16, 1>>
====
